---- MODULE Spec2Model ----
(***************************************************************************)
(* A model of Audio_Redaction.py: the timestamp codec                      *)
(* (timestamp_to_milliseconds), the transcript scan (find_terms_in_srt),   *)
(* the redaction loop (process_audio with generate_beep) and the button    *)
(* handler of the Streamlit front-end (main).                              *)
(*                                                                         *)
(* Text is modelled by TLA+ strings (Len, SubSeq and \o act on them        *)
(* character by character), so parsing is modelled by what the Python      *)
(* code does to the characters.  Audio is modelled at the millisecond      *)
(* granularity at which pydub addresses an AudioSegment: a buffer is the   *)
(* sequence of its one-millisecond samples.  Lengths are lengths in        *)
(* milliseconds; the rounding of a millisecond position to a frame of the  *)
(* decoded file is below this granularity and is not modelled.  Failures   *)
(* of file input and output (open, from_file, export) are not modelled.    *)
(***************************************************************************)
EXTENDS Integers, Sequences, FiniteSets, TLC

VARIABLES
    pc,           \* position of the program
    entry,        \* the function the run entered by: "main", "find", "redact", "codec"
    timestamp,    \* argument of timestamp_to_milliseconds      (codec runs)
    decoded,      \* its outcome: [ok, ms]                     (codec runs)
    audio_file,   \* the uploaded file: [present, samples]     (main, line 137)
    terms_input,  \* the text area's content                   (main, line 140)
    terms,        \* the term list                             (line 143 / argument)
    content,      \* the text of the SRT file                  (line 50)
    blocks,       \* find_terms_in_srt: content.strip().split('\n\n')
    bi,           \* find_terms_in_srt: index of the next block of the for loop
    timestamps,   \* find_terms_in_srt: its list; then process_audio's argument
    found,        \* what find_terms_in_srt returned: [returned, value]
    input,        \* process_audio: the buffer AudioSegment.from_file decoded
    audio,        \* process_audio: the working buffer
    ti,           \* process_audio: index of the next interval of the for loop
    output,       \* the exported file: [written, samples]
    ret,          \* what process_audio returned: "none", "True", "False"
    ui            \* the st.* calls made so far, in order

vars == <<pc, entry, timestamp, decoded, audio_file, terms_input, terms, content,
          blocks, bi, timestamps, found, input, audio, ti, output, ret, ui>>

-----------------------------------------------------------------------------
(* Bounds of the model *)

\* longest audio buffer, in milliseconds
MaxAudio == 3
\* largest millisecond offset of an interval handed to process_audio directly
MaxOffset == 4
\* longest interval list handed to process_audio directly
MaxIntervals == 2
\* most blocks of a transcript handed to find_terms_in_srt directly
MaxBlocks == 3
\* most blocks of a transcript the transcription service writes in main
MaxMainBlocks == 2

-----------------------------------------------------------------------------
(* Python str operations, on TLA+ strings *)

Char(s, i) == SubSeq(s, i, i)

IsDigit(c) == c \in {"0", "1", "2", "3", "4", "5", "6", "7", "8", "9"}

DigitVal(c) ==
    CASE c = "0" -> 0 [] c = "1" -> 1 [] c = "2" -> 2 [] c = "3" -> 3
      [] c = "4" -> 4 [] c = "5" -> 5 [] c = "6" -> 6 [] c = "7" -> 7
      [] c = "8" -> 8 [] c = "9" -> 9

\* int(s) of a string of decimal digits
RECURSIVE int(_)
int(s) ==
    IF Len(s) = 0 THEN 0
    ELSE int(SubSeq(s, 1, Len(s) - 1)) * 10 + DigitVal(Char(s, Len(s)))

\* sub occurs in s at index i
OccursAt(s, i, sub) ==
    /\ i >= 1
    /\ i + Len(sub) - 1 <= Len(s)
    /\ SubSeq(s, i, i + Len(sub) - 1) = sub

\* the operator `sub in s` of str
Contains(s, sub) == \E i \in 1..(Len(s) + 1) : OccursAt(s, i, sub)

IsSpace(c) == c \in {" ", "\n", "\t", "\r"}

\* str.strip()
RECURSIVE strip(_)
strip(s) ==
    IF Len(s) = 0 THEN s
    ELSE IF IsSpace(Char(s, 1)) THEN strip(SubSeq(s, 2, Len(s)))
    ELSE IF IsSpace(Char(s, Len(s))) THEN strip(SubSeq(s, 1, Len(s) - 1))
    ELSE s

\* str.split(sep): cut at each occurrence of sep, leftmost first
RECURSIVE split(_, _)
split(s, sep) ==
    IF ~Contains(s, sep) THEN <<s>>
    ELSE LET i == CHOOSE k \in 1..Len(s) :
                      /\ OccursAt(s, k, sep)
                      /\ \A j \in 1..(k - 1) : ~OccursAt(s, j, sep)
         IN  <<SubSeq(s, 1, i - 1)>> \o split(SubSeq(s, i + Len(sep), Len(s)), sep)

\* sep.join(parts)
RECURSIVE join(_, _)
join(sep, parts) ==
    IF Len(parts) = 0 THEN ""
    ELSE IF Len(parts) = 1 THEN parts[1]
    ELSE parts[1] \o sep \o join(sep, Tail(parts))

UpperCase == "ABCDEFGHIJKLMNOPQRSTUVWXYZ"
LowerCase == "abcdefghijklmnopqrstuvwxyz"

\* str.lower(), on the ASCII letters
RECURSIVE lower(_)
lower(s) ==
    IF Len(s) = 0 THEN s
    ELSE LET c == Char(s, 1)
             l == IF \E k \in 1..Len(UpperCase) : Char(UpperCase, k) = c
                  THEN Char(LowerCase, CHOOSE k \in 1..Len(UpperCase) : Char(UpperCase, k) = c)
                  ELSE c
         IN  l \o lower(SubSeq(s, 2, Len(s)))

-----------------------------------------------------------------------------
(* timestamp_to_milliseconds, lines 13-32 *)

\* The regular expression datetime.strptime compiles for '%H:%M:%S,%f' is
\*   (2[0-3]|[0-1]\d|\d):([0-5]\d|\d):(6[0-1]|[0-5]\d|\d),([0-9]{1,6})
\* Each match_X(s, i) is the set of lengths the directive X can match at i.

match_H(s, i) ==
    {n \in 1..2 :
        /\ i + n - 1 <= Len(s)
        /\ IsDigit(Char(s, i))
        /\ n = 2 => \/ Char(s, i) = "2" /\ Char(s, i + 1) \in {"0", "1", "2", "3"}
                    \/ Char(s, i) \in {"0", "1"} /\ IsDigit(Char(s, i + 1))}

match_M(s, i) ==
    {n \in 1..2 :
        /\ i + n - 1 <= Len(s)
        /\ IsDigit(Char(s, i))
        /\ n = 2 => /\ Char(s, i) \in {"0", "1", "2", "3", "4", "5"}
                    /\ IsDigit(Char(s, i + 1))}

match_S(s, i) ==
    {n \in 1..2 :
        /\ i + n - 1 <= Len(s)
        /\ IsDigit(Char(s, i))
        /\ n = 2 => \/ Char(s, i) = "6" /\ Char(s, i + 1) \in {"0", "1"}
                    \/ /\ Char(s, i) \in {"0", "1", "2", "3", "4", "5"}
                       /\ IsDigit(Char(s, i + 1))}

\* [0-9]{1,6} is greedy: the longest run of one to six digits at i (0: none)
match_f(s, i) ==
    LET runs == {n \in 1..6 :
                    /\ i + n - 1 <= Len(s)
                    /\ \A k \in i..(i + n - 1) : IsDigit(Char(s, k))}
    IN  IF runs = {} THEN 0 ELSE CHOOSE n \in runs : \A m \in runs : m <= n

IsCharAt(s, i, c) == i <= Len(s) /\ Char(s, i) = c

ValueError == [ok |-> FALSE, hour |-> 0, minute |-> 0, second |-> 0, microsecond |-> 0]

\* the fields of a match whose H, M and S directives took p[1], p[2] and p[3]
\* characters.  "unconverted data remains" when the match ends before the
\* string does; the datetime constructor refuses a second above 59.
strptime_fields(s, p, fn) ==
    LET fs  == 4 + p[1] + p[2] + p[3]
        \* s += "0" * (6 - len(s)): the fraction is read as microseconds
        us  == int(SubSeq(s, fs, fs + fn - 1) \o SubSeq("000000", 1, 6 - fn))
        sec == int(SubSeq(s, 3 + p[1] + p[2], 2 + p[1] + p[2] + p[3]))
    IN  IF fs + fn - 1 # Len(s) \/ sec > 59 THEN ValueError
        ELSE [ok |-> TRUE,
              hour |-> int(SubSeq(s, 1, p[1])),
              minute |-> int(SubSeq(s, 2 + p[1], 1 + p[1] + p[2])),
              second |-> sec,
              microsecond |-> us]

strptime_match(s, parses) ==
    IF parses = {} THEN ValueError
    ELSE LET p == CHOOSE q \in parses : TRUE
         IN  strptime_fields(s, p, match_f(s, 4 + p[1] + p[2] + p[3]))

\* datetime.strptime(s, '%H:%M:%S,%f'): [ok, hour, minute, second, microsecond];
\* ok is FALSE where Python raises ValueError.  The separators fix the width
\* of every field, so at most one parse exists.
strptime(s) ==
    strptime_match(s,
        {p \in (1..2) \X (1..2) \X (1..2) :
            /\ p[1] \in match_H(s, 1)
            /\ IsCharAt(s, 1 + p[1], ":")
            /\ p[2] \in match_M(s, 2 + p[1])
            /\ IsCharAt(s, 2 + p[1] + p[2], ":")
            /\ p[3] \in match_S(s, 3 + p[1] + p[2])
            /\ IsCharAt(s, 3 + p[1] + p[2] + p[3], ",")
            /\ match_f(s, 4 + p[1] + p[2] + p[3]) >= 1})

\* lines 27-32: [ok, ms]
total_milliseconds(time_obj) ==
    IF ~time_obj.ok THEN [ok |-> FALSE, ms |-> 0]
    ELSE [ok |-> TRUE,
          ms |-> time_obj.hour * 3600000
                 + time_obj.minute * 60000
                 + time_obj.second * 1000
                 + time_obj.microsecond \div 1000]

\* [ok, ms]: ok is FALSE where the function raises
timestamp_to_milliseconds(t) == total_milliseconds(strptime(t))

-----------------------------------------------------------------------------
(* pydub's AudioSegment, at millisecond granularity *)

\* one millisecond of the decoded file: the sample is named by its position
FileSample(i) == [src |-> "file", at |-> i]

\* AudioSegment.from_file of a file of n milliseconds
from_file(n) == [i \in 1..n |-> FileSample(i)]

\* one millisecond of Sine(1000): a 1000 Hz wave repeats every millisecond
SineSample == [src |-> "sine", at |-> 0]

Min(a, b) == IF a <= b THEN a ELSE b

\* a slice that takes its stop position too
getitem_inclusive(seg, start, stop) ==
    SubSeq(seg, Min(start, Len(seg)) + 1, Min(stop + 1, Len(seg)))

\* AudioSegment.__getitem__(slice(start, stop)) for start, stop >= 0:
\* pydub clamps both ends to len(self) and raises nothing
getitem(seg, start, stop) == SubSeq(seg, Min(start, Len(seg)) + 1, Min(stop, Len(seg)))

\* a beep one millisecond longer than asked for
generate_beep_long(duration) ==
    IF duration < 0 THEN [ok |-> FALSE, seg |-> <<>>]
    ELSE [ok |-> TRUE, seg |-> [k \in 1..(duration + 1) |-> SineSample]]

\* a beep without the overlay of line 93: the silent segment alone
generate_beep_silent(duration) ==
    IF duration < 0 THEN [ok |-> FALSE, seg |-> <<>>]
    ELSE [ok |-> TRUE, seg |-> [k \in 1..duration |-> [src |-> "silence", at |-> 0]]]

\* generate_beep, lines 76-96: [ok, seg].  silent(duration).overlay(sine) - 3
\* has the length of the silent segment.  For a negative duration
\* Sine.to_audio_segment hands a negative count to itertools.islice, which
\* raises ValueError.
generate_beep(duration) ==
    IF duration < 0 THEN [ok |-> FALSE, seg |-> <<>>]
    ELSE [ok |-> TRUE, seg |-> [k \in 1..duration |-> SineSample]]

\* the beep inserted at start_ms, nothing removed
Splice_insert(seg, start_ms, beep, end_ms) ==
    getitem(seg, 0, start_ms) \o beep \o getitem(seg, start_ms, Len(seg))

\* line 119: audio[:start_ms] + beep + audio[end_ms:]
Splice(seg, start_ms, beep, end_ms) ==
    getitem(seg, 0, start_ms) \o beep \o getitem(seg, end_ms, Len(seg))

-----------------------------------------------------------------------------
(* find_terms_in_srt, lines 35-73 *)

\* \d{2}:\d{2}:\d{2},\d{3} at index i of s
MatchesStamp(s, i) ==
    /\ i + 11 <= Len(s)
    /\ \A k \in {0, 1, 3, 4, 6, 7, 9, 10, 11} : IsDigit(Char(s, i + k))
    /\ Char(s, i + 2) = ":"
    /\ Char(s, i + 5) = ":"
    /\ Char(s, i + 8) = ","

\* re.match(r'(\d{2}:\d{2}:\d{2},\d{3}) --> (\d{2}:\d{2}:\d{2},\d{3})', time_line):
\* a match of a prefix of the line; group(1) and group(2)
re_match(time_line) ==
    IF /\ MatchesStamp(time_line, 1)
       /\ OccursAt(time_line, 13, " --> ")
       /\ MatchesStamp(time_line, 18)
    THEN [matched |-> TRUE,
          group1 |-> SubSeq(time_line, 1, 12),
          group2 |-> SubSeq(time_line, 18, 29)]
    ELSE [matched |-> FALSE, group1 |-> "", group2 |-> ""]

\* line 62: any(term.lower() in text for term in terms)
AnyTermIn(text, termlist) ==
    \E k \in 1..Len(termlist) : Contains(text, lower(termlist[k]))

NoInterval == [raised |-> FALSE, append |-> FALSE, start_time |-> 0, end_time |-> 0]

\* lines 66-68: both timestamps decoded, the pair appended
ScanTimes(start_time, end_time) ==
    IF ~start_time.ok \/ ~end_time.ok
    THEN [NoInterval EXCEPT !.raised = TRUE]
    ELSE [raised |-> FALSE, append |-> TRUE,
          start_time |-> start_time.ms, end_time |-> end_time.ms]

\* lines 65-67: if match
ScanMatch(m) ==
    IF ~m.matched THEN NoInterval
    ELSE ScanTimes(timestamp_to_milliseconds(m.group1),
                   timestamp_to_milliseconds(m.group2))

\* lines 57-64: at least three lines, and a term in the text
ScanLines(lines, termlist) ==
    IF Len(lines) < 3 THEN NoInterval
    ELSE IF ~AnyTermIn(lower(join(" ", SubSeq(lines, 3, Len(lines)))), termlist)
    THEN NoInterval
    ELSE ScanMatch(re_match(lines[2]))

\* lines 56-68, one pass of the for loop over a block:
\* [raised, append, start_time, end_time]
ScanBlock(block, termlist) == ScanLines(split(block, "\n"), termlist)

\* where a function returns to: its caller in main, or the end of a direct call
AfterReturn(label) == IF entry = "main" THEN label ELSE "done"

\* lines 49-53: read the file and split it into blocks
find_open ==
    /\ pc = "find_terms_in_srt"
    /\ blocks' = split(strip(content), "\n\n")
    /\ bi' = 1
    /\ timestamps' = <<>>
    /\ pc' = "find_loop"
    /\ UNCHANGED <<entry, timestamp, decoded, audio_file, terms_input, terms, content,
                   found, input, audio, ti, output, ret, ui>>

\* the effect of one pass whose outcome is r
FindStep(r) ==
    IF r.raised
    THEN /\ ui' = Append(ui, <<"error", "Error reading SRT file">>)
         /\ found' = [returned |-> TRUE, value |-> <<>>]
         /\ pc' = AfterReturn("main_found")
         /\ UNCHANGED <<bi, timestamps>>
    ELSE /\ timestamps' = IF r.append
                          THEN Append(timestamps, <<r.start_time, r.end_time>>)
                          ELSE timestamps
         /\ bi' = bi + 1
         /\ UNCHANGED <<pc, found, ui>>

\* lines 55-68 and 70-73: one block; an exception ends the function with []
find_block ==
    /\ pc = "find_loop"
    /\ bi <= Len(blocks)
    /\ FindStep(ScanBlock(blocks[bi], terms))
    /\ UNCHANGED <<entry, timestamp, decoded, audio_file, terms_input, terms, content,
                   blocks, input, audio, ti, output, ret>>

\* line 69: return timestamps
find_return ==
    /\ pc = "find_loop"
    /\ bi > Len(blocks)
    /\ found' = [returned |-> TRUE, value |-> timestamps]
    /\ pc' = AfterReturn("main_found")
    /\ UNCHANGED <<entry, timestamp, decoded, audio_file, terms_input, terms, content,
                   blocks, bi, timestamps, input, audio, ti, output, ret, ui>>

-----------------------------------------------------------------------------
(* process_audio, lines 99-127 *)

\* line 113: load the original audio file
process_load ==
    /\ pc = "process_audio"
    /\ input' = audio_file.samples
    /\ audio' = audio_file.samples
    /\ ti' = 1
    /\ pc' = "process_loop"
    /\ UNCHANGED <<entry, timestamp, decoded, audio_file, terms_input, terms, content,
                   blocks, bi, timestamps, found, output, ret, ui>>

\* lines 116-119 and 124-127: one interval; an exception ends the function
process_edit ==
    /\ pc = "process_loop"
    /\ ti <= Len(timestamps)
    /\ LET start_ms == timestamps[ti][1]
           end_ms == timestamps[ti][2]
           duration == end_ms - start_ms
           beep == generate_beep(duration)
       IN  IF ~beep.ok
           THEN /\ ui' = Append(ui, <<"error", "Error processing audio">>)
                /\ ret' = "False"
                /\ pc' = AfterReturn("main_processed")
                /\ UNCHANGED <<audio, ti>>
           ELSE /\ audio' = Splice(audio, start_ms, beep.seg, end_ms)
                /\ ti' = ti + 1
                /\ UNCHANGED <<pc, ret, ui>>
    /\ UNCHANGED <<entry, timestamp, decoded, audio_file, terms_input, terms, content,
                   blocks, bi, timestamps, found, input, output>>

\* lines 122-123: export the buffer and return True
process_export ==
    /\ pc = "process_loop"
    /\ ti > Len(timestamps)
    /\ output' = [written |-> TRUE, samples |-> audio]
    /\ ret' = "True"
    /\ pc' = AfterReturn("main_processed")
    /\ UNCHANGED <<entry, timestamp, decoded, audio_file, terms_input, terms, content,
                   blocks, bi, timestamps, found, input, audio, ti, ui>>

-----------------------------------------------------------------------------
(* main, lines 130-193: one run of the script with the button pressed *)

\* line 143: [term.strip() for term in terms_input.split('\n') if term.strip()]
ParseTerms(text) ==
    LET parts == split(text, "\n")
        stripped == [k \in 1..Len(parts) |-> strip(parts[k])]
    IN  SelectSeq(stripped, LAMBDA t : t # "")

\* HH:MM:SS,mmm of the four fields (the inverse of the codec, used to write
\* the timestamps of the transcripts and to re-derive a timestamp)
DigitChar(d) == Char("0123456789", d + 1)
Format2(n) == DigitChar((n \div 10) % 10) \o DigitChar(n % 10)
Format3(n) == DigitChar((n \div 100) % 10) \o Format2(n % 100)
encode(h, m, s, f) ==
    Format2(h) \o ":" \o Format2(m) \o ":" \o Format2(s) \o "," \o Format3(f)

\* the timestamps of the transcripts: two small offsets, a minute field out of
\* range and an hour field beyond 23
Stamps == {encode(0, 0, 0, 1), encode(0, 0, 0, 3), "00:61:00,000", "24:00:00,000"}

\* time-range lines: every pair whose start is in range, one whose start is
\* not, and one with the wrong separator
TimeLines ==
    {a \o " --> " \o b : a \in {encode(0, 0, 0, 1), encode(0, 0, 0, 3)}, b \in Stamps}
    \cup {"00:61:00,000 --> 00:00:00,003", "00:00:00,001 -> 00:00:00,003"}

\* blocks: index line, time-range line, text (one block has two text lines,
\* one block has no text line)
Blocks ==
    {"1\n" \o tl \o "\n" \o tx : tl \in TimeLines, tx \in {"x", "aSb"}}
    \cup {"1\n00:00:00,001 --> 00:00:00,003\na\ns", "1\n00:00:00,001 --> 00:00:00,003"}

\* the document of a sequence of blocks: INDEX\nSTART --> END\nTEXT\n\n repeated
Document(bs) == join("", [k \in 1..Len(bs) |-> bs[k] \o "\n\n"])

Transcripts(n) == UNION {{Document(bs) : bs \in [1..k -> Blocks]} : k \in 0..n}

AudioFiles ==
    {[present |-> FALSE, samples |-> <<>>]}
    \cup {[present |-> TRUE, samples |-> from_file(n)] : n \in 0..MaxAudio}

TermInputs == {"", " \n", "s", " S \n\nb "}

\* lines 143-147 and 191-193: the terms, and the guard of the whole run
main_button ==
    /\ pc = "main"
    /\ terms' = ParseTerms(terms_input)
    /\ IF audio_file.present /\ terms' # <<>>
       THEN /\ pc' = "transcribe"
            /\ UNCHANGED ui
       ELSE /\ ui' = Append(ui, <<"warning", "Please upload an audio file and enter terms to bleep.">>)
            /\ pc' = "done"
    /\ UNCHANGED <<entry, timestamp, decoded, audio_file, terms_input, content,
                   blocks, bi, timestamps, found, input, audio, ti, output, ret>>

\* lines 156-165: the transcription service writes some transcript
main_transcribe ==
    /\ pc = "transcribe"
    /\ \E doc \in Transcripts(MaxMainBlocks) : content' = doc
    /\ ui' = Append(ui, <<"success", "Transcription complete!">>)
    /\ pc' = "find_terms_in_srt"
    /\ UNCHANGED <<entry, timestamp, decoded, audio_file, terms_input, terms,
                   blocks, bi, timestamps, found, input, audio, ti, output, ret>>

\* lines 188-190: the transcription raises
main_transcribe_raises ==
    /\ pc = "transcribe"
    /\ ui' = Append(ui, <<"error", "Error during transcription">>)
    /\ pc' = "done"
    /\ UNCHANGED <<entry, timestamp, decoded, audio_file, terms_input, terms, content,
                   blocks, bi, timestamps, found, input, audio, ti, output, ret>>

\* lines 169-177 and 185-186: timestamps = find_terms_in_srt(...); if timestamps
main_found ==
    /\ pc = "main_found"
    /\ timestamps' = found.value
    /\ IF found.value # <<>>
       THEN /\ pc' = "process_audio"
            /\ UNCHANGED ui
       ELSE /\ ui' = Append(ui, <<"warning", "No matching terms found in the transcription.">>)
            /\ pc' = "done"
    /\ UNCHANGED <<entry, timestamp, decoded, audio_file, terms_input, terms, content,
                   blocks, bi, found, input, audio, ti, output, ret>>

\* lines 180-184: if process_audio(...)
main_processed ==
    /\ pc = "main_processed"
    /\ ui' = IF ret = "True"
             THEN Append(ui, <<"success", "Redacted audio saved">>)
             ELSE Append(ui, <<"error", "Failed to create redacted audio.">>)
    /\ pc' = "done"
    /\ UNCHANGED <<entry, timestamp, decoded, audio_file, terms_input, terms, content,
                   blocks, bi, timestamps, found, input, audio, ti, output, ret>>

-----------------------------------------------------------------------------
(* a direct call of timestamp_to_milliseconds *)

decode ==
    /\ pc = "decode"
    /\ decoded' = timestamp_to_milliseconds(timestamp)
    /\ pc' = "done"
    /\ UNCHANGED <<entry, timestamp, audio_file, terms_input, terms, content,
                   blocks, bi, timestamps, found, input, audio, ti, output, ret, ui>>

-----------------------------------------------------------------------------
(* Specifications *)

\* main: any upload, any text in the text area
Init ==
    /\ pc = "main"
    /\ entry = "main"
    /\ audio_file \in AudioFiles
    /\ terms_input \in TermInputs
    /\ timestamp = ""
    /\ decoded = [ok |-> FALSE, ms |-> 0]
    /\ terms = <<>>
    /\ content = ""
    /\ blocks = <<>>
    /\ bi = 1
    /\ timestamps = <<>>
    /\ found = [returned |-> FALSE, value |-> <<>>]
    /\ input = <<>>
    /\ audio = <<>>
    /\ ti = 1
    /\ output = [written |-> FALSE, samples |-> <<>>]
    /\ ret = "none"
    /\ ui = <<>>

Next ==
    \/ main_button
    \/ main_transcribe
    \/ main_transcribe_raises
    \/ find_open
    \/ find_block
    \/ find_return
    \/ main_found
    \/ process_load
    \/ process_edit
    \/ process_export
    \/ main_processed

Spec == Init /\ [][Next]_vars

\* timestamp_to_milliseconds called on its own
Hours == {0, 1, 23, 24, 99}
Minutes == {0, 1, 59}
Seconds == {0, 23, 59}
Millis == {0, 456, 999}

TimestampInputs ==
    {encode(h, m, s, f) : h \in Hours, m \in Minutes, s \in Seconds, f \in Millis}
    \cup {"", "1:2:3,4", "00:00:00.000", "00:61:00,000", "00:00:60,000", "00:00:00,0001"}

InitCodec ==
    /\ pc = "decode"
    /\ entry = "codec"
    /\ timestamp \in TimestampInputs
    /\ decoded = [ok |-> FALSE, ms |-> 0]
    /\ audio_file = [present |-> FALSE, samples |-> <<>>]
    /\ terms_input = ""
    /\ terms = <<>>
    /\ content = ""
    /\ blocks = <<>>
    /\ bi = 1
    /\ timestamps = <<>>
    /\ found = [returned |-> FALSE, value |-> <<>>]
    /\ input = <<>>
    /\ audio = <<>>
    /\ ti = 1
    /\ output = [written |-> FALSE, samples |-> <<>>]
    /\ ret = "none"
    /\ ui = <<>>

NextCodec == decode

SpecCodec == InitCodec /\ [][NextCodec]_vars

\* find_terms_in_srt called on its own
TermLists == {<<>>, <<"S", "b">>, <<"a s">>}

InitFind ==
    /\ pc = "find_terms_in_srt"
    /\ entry = "find"
    /\ content \in Transcripts(MaxBlocks)
    /\ terms \in TermLists
    /\ timestamp = ""
    /\ decoded = [ok |-> FALSE, ms |-> 0]
    /\ audio_file = [present |-> FALSE, samples |-> <<>>]
    /\ terms_input = ""
    /\ blocks = <<>>
    /\ bi = 1
    /\ timestamps = <<>>
    /\ found = [returned |-> FALSE, value |-> <<>>]
    /\ input = <<>>
    /\ audio = <<>>
    /\ ti = 1
    /\ output = [written |-> FALSE, samples |-> <<>>]
    /\ ret = "none"
    /\ ui = <<>>

NextFind ==
    \/ find_open
    \/ find_block
    \/ find_return

SpecFind == InitFind /\ [][NextFind]_vars

\* process_audio called on its own
Intervals == (0..MaxOffset) \X (0..MaxOffset)

IntervalLists == UNION {[1..k -> Intervals] : k \in 0..MaxIntervals}

InitRedact ==
    /\ pc = "process_audio"
    /\ entry = "redact"
    /\ \E n \in 0..MaxAudio : audio_file = [present |-> TRUE, samples |-> from_file(n)]
    /\ timestamps \in IntervalLists
    /\ timestamp = ""
    /\ decoded = [ok |-> FALSE, ms |-> 0]
    /\ terms_input = ""
    /\ terms = <<>>
    /\ content = ""
    /\ blocks = <<>>
    /\ bi = 1
    /\ found = [returned |-> FALSE, value |-> <<>>]
    /\ input = <<>>
    /\ audio = <<>>
    /\ ti = 1
    /\ output = [written |-> FALSE, samples |-> <<>>]
    /\ ret = "none"
    /\ ui = <<>>

NextRedact ==
    \/ process_load
    \/ process_edit
    \/ process_export

SpecRedact == InitRedact /\ [][NextRedact]_vars

-----------------------------------------------------------------------------
(* Vocabulary of the properties *)

\* every interval lies in the buffer: 0 <= start_ms <= end_ms <= n
InBounds(ts, n) ==
    \A k \in 1..Len(ts) : 0 <= ts[k][1] /\ ts[k][1] <= ts[k][2] /\ ts[k][2] <= n

\* the millisecond position q lies in the half-open interval iv
Covers(iv, q) == iv[1] <= q /\ q < iv[2]

\* two intervals share a position
Overlap(a, b) == \E q \in 0..MaxOffset + 1 : Covers(a, q) /\ Covers(b, q)

NonOverlapping(ts) ==
    \A i \in 1..Len(ts) : \A j \in 1..Len(ts) : i # j => ~Overlap(ts[i], ts[j])

\* the buffer whose positions in the union of the intervals are tone and whose
\* other positions are those of inp
Reference(inp, ts) ==
    [p \in 1..Len(inp) |->
        IF \E k \in 1..Len(ts) : Covers(ts[k], p - 1) THEN SineSample ELSE inp[p]]

\* a timestamp HH:MM:SS,mmm with hours 00-99, minutes and seconds 00-59
ValidStamp(t) ==
    /\ Len(t) = 12
    /\ MatchesStamp(t, 1)
    /\ int(SubSeq(t, 4, 5)) <= 59
    /\ int(SubSeq(t, 7, 8)) <= 59

\* its offset, from its digits
StampMs(t) ==
    int(SubSeq(t, 1, 2)) * 3600000 + int(SubSeq(t, 4, 5)) * 60000
    + int(SubSeq(t, 7, 8)) * 1000 + int(SubSeq(t, 10, 12))

\* HH:MM:SS,mmm re-derived from an offset by integer division and modulo
Rederive(ms) ==
    encode(ms \div 3600000, (ms \div 60000) % 60, (ms \div 1000) % 60, ms % 1000)

\* the line is START --> END of two valid timestamps
ValidTimeLine(line) ==
    /\ Len(line) = 29
    /\ ValidStamp(SubSeq(line, 1, 12))
    /\ SubSeq(line, 13, 17) = " --> "
    /\ ValidStamp(SubSeq(line, 18, 29))

LinesOf(block) == split(block, "\n")

\* index line, valid time-range line, at least one text line
WellFormedBlock(block) ==
    Len(LinesOf(block)) >= 3 /\ ValidTimeLine(LinesOf(block)[2])

\* the block has a time-range line outside the grammar
BadTimeLine(block) ==
    Len(LinesOf(block)) >= 2 /\ ~ValidTimeLine(LinesOf(block)[2])

\* some timestamp of the block's time-range line has an hour field above 23
LateHour(block) ==
    /\ WellFormedBlock(block)
    /\ \/ int(SubSeq(LinesOf(block)[2], 1, 2)) > 23
       \/ int(SubSeq(LinesOf(block)[2], 18, 19)) > 23

\* the caption text contains a term, case-insensitively
UnitMatches(block, termlist) ==
    LET lines == LinesOf(block)
        text == join(" ", SubSeq(lines, 3, Len(lines)))
    IN  \E k \in 1..Len(termlist) : Contains(lower(text), lower(termlist[k]))

UnitInterval(block) ==
    <<StampMs(SubSeq(LinesOf(block)[2], 1, 12)), StampMs(SubSeq(LinesOf(block)[2], 18, 29))>>

\* one interval per matching well-formed block, in transcript order
RECURSIVE ExpectedIntervals(_, _)
ExpectedIntervals(bs, termlist) ==
    IF Len(bs) = 0 THEN <<>>
    ELSE (IF WellFormedBlock(bs[1]) /\ UnitMatches(bs[1], termlist)
          THEN <<UnitInterval(bs[1])>> ELSE <<>>)
         \o ExpectedIntervals(Tail(bs), termlist)

\* the blocks of the transcript
CaptionBlocks == IF strip(content) = "" THEN <<>> ELSE split(strip(content), "\n\n")

Some(bs, P(_)) == \E k \in 1..Len(bs) : P(bs[k])
Every(bs, P(_)) == \A k \in 1..Len(bs) : P(bs[k])

Shown(kind, msg) == \E k \in 1..Len(ui) : ui[k] = <<kind, msg>>
ShownKind(kind) == \E k \in 1..Len(ui) : ui[k][1] = kind

-----------------------------------------------------------------------------
(* Properties of process_audio, checked under SpecRedact *)

\* C1: for pairwise non-overlapping in-bounds intervals the working buffer has
\* the length of the input buffer after every edit, and the run ends with an
\* exported buffer of that length.
C1_DurationPreserved ==
    (InBounds(timestamps, Len(audio_file.samples)) /\ NonOverlapping(timestamps))
    => /\ pc \in {"process_loop", "done"} => Len(audio) = Len(input)
       /\ pc = "done" => /\ ret = "True"
                         /\ output.written
                         /\ Len(output.samples) = Len(audio_file.samples)

C1_Witness ==
    /\ pc = "done"
    /\ Len(timestamps) = 2
    /\ InBounds(timestamps, Len(input))
    /\ NonOverlapping(timestamps)
    /\ \A k \in 1..2 : timestamps[k][1] < timestamps[k][2]
    /\ output.written
    /\ Len(output.samples) = Len(input)

\* C2: for pairwise non-overlapping in-bounds intervals the exported buffer
\* equals the input at every position outside the intervals and is tone at
\* every position inside one.
C2_FrameAndTone ==
    (/\ pc = "done"
     /\ InBounds(timestamps, Len(input))
     /\ NonOverlapping(timestamps))
    => /\ output.written
       /\ Len(output.samples) = Len(input)
       /\ \A p \in 1..Len(input) :
             IF \E k \in 1..Len(timestamps) : Covers(timestamps[k], p - 1)
             THEN output.samples[p] = SineSample
             ELSE output.samples[p] = input[p]

C2_Witness ==
    /\ pc = "done"
    /\ output.written
    /\ InBounds(timestamps, Len(input))
    /\ NonOverlapping(timestamps)
    /\ Len(input) = 3
    /\ timestamps = <<<<1, 2>>>>
    /\ output.samples = <<FileSample(1), SineSample, FileSample(3)>>

\* C8: for in-bounds intervals in any order, overlapping or not, the exported
\* buffer has the length of the input buffer.
C8_AnyOrderLength ==
    (pc = "done" /\ InBounds(timestamps, Len(input)))
    => output.written /\ Len(output.samples) = Len(input)

C8_Witness ==
    /\ pc = "done"
    /\ InBounds(timestamps, Len(input))
    /\ Len(timestamps) = 2
    /\ timestamps[2][1] < timestamps[1][1]
    /\ \A k \in 1..2 : timestamps[k][1] < timestamps[k][2]
    /\ output.written
    /\ Len(output.samples) = Len(input)

\* two intervals of the list overlap
SomeOverlap(ts) ==
    \E i \in 1..Len(ts) : \E j \in 1..Len(ts) : i # j /\ Overlap(ts[i], ts[j])

\* C9 as stated: when two in-bounds intervals overlap, the exported buffer
\* differs from the buffer in which exactly the union of the intervals is tone.
C9_OverlapCorrupts ==
    (/\ pc = "done"
     /\ InBounds(timestamps, Len(input))
     /\ SomeOverlap(timestamps))
    => output.samples # Reference(input, timestamps)

\* C9 as amended: when in-bounds intervals overlap, the exported buffer is the
\* buffer in which exactly the union of the intervals is tone and every other
\* position equals the input.
C9_OverlapIsUnion ==
    (/\ pc = "done"
     /\ InBounds(timestamps, Len(input))
     /\ SomeOverlap(timestamps))
    => output.written /\ output.samples = Reference(input, timestamps)

C9_Witness ==
    /\ pc = "done"
    /\ Len(input) = 3
    /\ timestamps = <<<<0, 2>>, <<1, 3>>>>
    /\ output.written
    /\ output.samples = <<SineSample, SineSample, SineSample>>

\* C6: an interval that reaches beyond the buffer makes process_audio return
\* False and export nothing.
C6_OutOfRangeReported ==
    (/\ pc = "done"
     /\ \E k \in 1..Len(timestamps) :
            timestamps[k][1] > Len(input) \/ timestamps[k][2] > Len(input))
    => ret = "False" /\ ~output.written

-----------------------------------------------------------------------------
(* Properties of timestamp_to_milliseconds, checked under SpecCodec *)

\* C3: every valid timestamp decodes to hours*3600000 + minutes*60000 +
\* seconds*1000 + mmm, and the timestamp re-derived from that offset is the
\* timestamp decoded.
C3_DecodeRoundTrip ==
    (pc = "done" /\ ValidStamp(timestamp))
    => /\ decoded.ok
       /\ decoded.ms = StampMs(timestamp)
       /\ Rederive(decoded.ms) = timestamp

\* the same for the timestamps whose hour field is at most 23
C3_UpTo23 ==
    (pc = "done" /\ ValidStamp(timestamp) /\ int(SubSeq(timestamp, 1, 2)) <= 23)
    => /\ decoded.ok
       /\ decoded.ms = StampMs(timestamp)
       /\ Rederive(decoded.ms) = timestamp

-----------------------------------------------------------------------------
(* Properties of find_terms_in_srt, checked under SpecFind *)

\* C4: for a transcript of well-formed blocks the function returns one
\* interval per caption unit whose text contains a term case-insensitively, in
\* transcript order, without merging or deduplication.
C4_MatchingUnits ==
    (pc = "done" /\ Every(CaptionBlocks, WellFormedBlock))
    => found.returned /\ found.value = ExpectedIntervals(CaptionBlocks, terms)

\* the same for the transcripts without an hour field above 23
C4_UpTo23 ==
    (/\ pc = "done"
     /\ Every(CaptionBlocks, WellFormedBlock)
     /\ ~Some(CaptionBlocks, LateHour))
    => found.returned /\ found.value = ExpectedIntervals(CaptionBlocks, terms)

\* C5: a block whose time-range line fails the grammar is dropped alone: the
\* intervals of the matching well-formed blocks are returned, in order.
\* (Transcripts with an hour field above 23 are left to C3 and C4.)
C5_BadBlockDroppedAlone ==
    (/\ pc = "done"
     /\ Some(CaptionBlocks, BadTimeLine)
     /\ ~Some(CaptionBlocks, LateHour))
    => found.returned /\ found.value = ExpectedIntervals(CaptionBlocks, terms)

\* the same when every bad time-range line is one the pattern of line 64 rejects
C5_PatternRejects ==
    (/\ pc = "done"
     /\ Some(CaptionBlocks, BadTimeLine)
     /\ ~Some(CaptionBlocks, LateHour)
     /\ \A k \in 1..Len(CaptionBlocks) :
            BadTimeLine(CaptionBlocks[k]) => ~re_match(LinesOf(CaptionBlocks[k])[2]).matched)
    => found.returned /\ found.value = ExpectedIntervals(CaptionBlocks, terms)

\* C10: every interval the function returns has start_ms <= end_ms.
C10_StartBeforeEnd ==
    found.returned
    => \A k \in 1..Len(found.value) : found.value[k][1] <= found.value[k][2]

-----------------------------------------------------------------------------
(* Properties of main, checked under Spec *)

NoMatchWarning == Shown("warning", "No matching terms found in the transcription.")
UploadWarning == Shown("warning", "Please upload an audio file and enter terms to bleep.")

\* transcription runs only with an upload and a term; process_audio runs only
\* on a non-empty list
C7_Guards ==
    /\ pc = "transcribe" => audio_file.present /\ ParseTerms(terms_input) # <<>>
    /\ pc \in {"process_audio", "process_loop", "main_processed"} => found.value # <<>>

\* C7: no upload, no term or no match ends in a warning, without redacted
\* audio and without an error; transcription and process_audio run only when
\* their inputs are there; an error inside find_terms_in_srt is shown as an
\* error and not as the warning that no term matched.
C7_SoftOutcomes ==
    /\ C7_Guards
    /\ (pc = "done" /\ (~audio_file.present \/ ParseTerms(terms_input) = <<>>))
       => UploadWarning /\ ~ShownKind("error") /\ ~output.written
    /\ (pc = "done" /\ found.returned /\ found.value = <<>>)
       => NoMatchWarning /\ ~ShownKind("error") /\ ~output.written
    /\ (pc = "done" /\ Shown("error", "Error reading SRT file")) => ~NoMatchWarning

====
